---- MODULE Spec2Model ----
(***************************************************************************)
(* Podcast2Newsletter: the episode-to-newsletter pipeline of action.py     *)
(* (mail sink), multi.py (batch file sink), main.py (local chunked         *)
(* transcription) and geminifull.py, with the helpers they share.          *)
(***************************************************************************)
EXTENDS Integers, Sequences, FiniteSets, TLC

(***************************************************************************)
(* Bounds of the model.                                                    *)
(***************************************************************************)
MaxSeconds == 70
MaxFeeds == 2
MaxEntries == 2
MaxBatch == 3
MaxChunks == 3
MaxSections == 2

(***************************************************************************)
(* Strings are sequences of one-character strings, so that formatting is   *)
(* computed digit by digit and can be read back.                           *)
(***************************************************************************)
DigitChars == <<"0", "1", "2", "3", "4", "5", "6", "7", "8", "9">>

RECURSIVE Str(_)
\* str(n) of a non-negative int: its decimal digits, no padding
Str(n) == IF n < 10 THEN <<DigitChars[n + 1]>>
          ELSE Str(n \div 10) \o <<DigitChars[(n % 10) + 1]>>

\* the format spec ":02": at least two characters, zero-filled on the left
Pad02(n) == IF Len(Str(n)) < 2 THEN <<"0">> \o Str(n) ELSE Str(n)

\* format_timestamp with the hours field wrapped at a day
format_timestamp_wrap24(seconds) ==
    LET hours   == (seconds \div 3600) % 24
        minutes == (seconds % 3600) \div 60
        secs    == seconds % 60
    IN  Pad02(hours) \o <<":">> \o Pad02(minutes) \o <<":">> \o Pad02(secs)

\* action.py format_timestamp
format_timestamp(seconds) ==
    LET hours   == seconds \div 3600
        minutes == (seconds % 3600) \div 60
        secs    == seconds % 60
    IN  Pad02(hours) \o <<":">> \o Pad02(minutes) \o <<":">> \o Pad02(secs)

\* multi.py format_timestamp
format_timestamp_multi(seconds) ==
    LET hours    == seconds \div 3600
        minutes  == (seconds % 3600) \div 60
        seconds2 == seconds % 60
    IN  Pad02(hours) \o <<":">> \o Pad02(minutes) \o <<":">> \o Pad02(seconds2)

\* main.py format_timestamp
format_timestamp_main(seconds) ==
    LET hours    == seconds \div 3600
        minutes  == (seconds % 3600) \div 60
        seconds2 == seconds % 60
    IN  Pad02(hours) \o <<":">> \o Pad02(minutes) \o <<":">> \o Pad02(seconds2)

(***************************************************************************)
(* State.  fmt*: one application of the timestamp formatter.  The rest is  *)
(* one run of one script (variant): its environment, its position (pc),    *)
(* the locals of its loops, and what it has delivered.                     *)
(***************************************************************************)
VARIABLES fmtCopy, fmtIn, fmtOut, fmtDone,
          variant, pc, env, token_pickle,
          feeds_data, fi, now, entries, new_episodes, ei,
          response, newsletter_data, output,
          send_calls, send_ok, reported,
          files, chunks, chunk_index, total_duration, vtt_files,
          started, inProgress, feedsDone, trail, runStages, outcomes

fmtVars == <<fmtCopy, fmtIn, fmtOut, fmtDone>>
cfgVars == <<variant, env, feeds_data>>
feedVars == <<fi, now, entries, new_episodes, ei>>
epVars == <<response, newsletter_data, output>>
mailVars == <<send_calls, send_ok, reported>>
fsVars == <<files>>
chunkVars == <<chunks, chunk_index, total_duration, vtt_files>>
histVars == <<started, inProgress, feedsDone, trail, runStages, outcomes>>
vars == <<fmtVars, cfgVars, pc, token_pickle, feedVars, epVars, mailVars, fsVars,
          chunkVars, histVars>>

(***************************************************************************)
(* Values.                                                                 *)
(***************************************************************************)
\* an absent value is the empty sequence, a present one a sequence of one
None == <<>>
Some(x) == <<x>>
NoPub == -1
Day == 86400
Now0 == 200000
Nows == {Now0, Now0 + 1}

\* a feed entry: its title, published_parsed (NoPub when the key is absent)
\* and whether it has an enclosure
Entry(t, p, a) == [title |-> t, published |-> p, enclosures |-> a]

\* what the generative backend can answer: text that is no JSON, an object
\* without "sections", an object with "sections"
SectionA == [timestamp |-> 65, header |-> "A", content |-> "a-body"]
SectionB == [timestamp |-> 130, header |-> "B", content |-> "b-body"]
NotJson == [json |-> FALSE, has_sections |-> FALSE, title |-> "", summary |-> "", sections |-> <<>>]
NoSections == [json |-> TRUE, has_sections |-> FALSE, title |-> "T", summary |-> "S", sections |-> <<>>]
WithSections(ss) == [json |-> TRUE, has_sections |-> TRUE, title |-> "T", summary |-> "S", sections |-> ss]
Responses == {NotJson, NoSections, WithSections(<<>>), WithSections(<<SectionA>>)}

\* an environment in which nothing is missing: both API keys, a valid
\* GMAIL_TOKEN, CI set, feeds.json readable
GoodEnv == [gemini_key |-> TRUE, deepgram_key |-> TRUE, gmail_token |-> "valid",
            ci |-> TRUE, credentials |-> FALSE, feeds_json |-> TRUE]

\* the state of the pipeline variables while no script runs
PipeIdle ==
    /\ variant = "none" /\ pc = "idle"
    /\ env = GoodEnv /\ token_pickle = "absent" /\ feeds_data = <<>>
    /\ fi = 0 /\ now = 0 /\ entries = <<>> /\ new_episodes = <<>> /\ ei = 0
    /\ response = None /\ newsletter_data = None /\ output = None
    /\ send_calls = 0 /\ send_ok = FALSE /\ reported = FALSE
    /\ files = <<>>
    /\ chunks = <<>> /\ chunk_index = 0 /\ total_duration = 0 /\ vtt_files = <<>>
    /\ started = <<>> /\ inProgress = {} /\ feedsDone = <<>>
    /\ trail = <<>> /\ runStages = {} /\ outcomes = <<>>

(***************************************************************************)
(* The timestamp formatter, applied to one input by one of its copies.     *)
(***************************************************************************)
FormatCopies == {"action", "multi", "main"}
FormatInputs == (0 .. MaxSeconds) \cup {3599, 3600, 3661, 86399, 86400, 90000, 360000}

FmtIdle == fmtCopy = "none" /\ fmtIn = 0 /\ fmtOut = <<>> /\ fmtDone = FALSE

InitFormat ==
    /\ fmtCopy \in FormatCopies
    /\ fmtIn \in FormatInputs
    /\ fmtOut = <<>>
    /\ fmtDone = FALSE
    /\ PipeIdle

Format ==
    /\ fmtCopy \in FormatCopies
    /\ ~fmtDone
    /\ fmtOut' = CASE fmtCopy = "action" -> format_timestamp(fmtIn)
                   [] fmtCopy = "multi"  -> format_timestamp_multi(fmtIn)
                   [] fmtCopy = "main"   -> format_timestamp_main(fmtIn)
    /\ fmtDone' = TRUE
    /\ UNCHANGED <<fmtCopy, fmtIn, fsVars, chunkVars, cfgVars, pc, token_pickle, feedVars, epVars, mailVars, histVars>>

NextFormat == Format
SpecFormat == InitFormat /\ [][NextFormat]_vars

(***************************************************************************)
(* Reading a formatted string back.                                        *)
(***************************************************************************)
DigitValue(c) == CHOOSE d \in 0 .. 9 : DigitChars[d + 1] = c
IsDigit(c) == \E d \in 0 .. 9 : DigitChars[d + 1] = c

RECURSIVE Val(_)
Val(ds) == IF Len(ds) = 0 THEN 0
           ELSE 10 * Val(SubSeq(ds, 1, Len(ds) - 1)) + DigitValue(ds[Len(ds)])

AllDigits(ds) == \A i \in 1 .. Len(ds) : IsDigit(ds[i])

\* C1: every copy of format_timestamp returns HH:MM:SS with hours =
\* floor(s/3600) (never wrapped at 24), minutes = floor((s mod 3600)/60),
\* seconds = s mod 60, each zero-padded to width 2; format(0) = 00:00:00,
\* format(3661) = 01:01:01, format(86399) = 23:59:59, format(90000) = 25:00:00.
C1_FormatTimestamp ==
    fmtDone =>
        LET n  == Len(fmtOut)
            hh == SubSeq(fmtOut, 1, n - 6)
            mm == SubSeq(fmtOut, n - 4, n - 3)
            ss == SubSeq(fmtOut, n - 1, n)
        IN  /\ n >= 8
            /\ fmtOut[n - 5] = ":" /\ fmtOut[n - 2] = ":"
            /\ AllDigits(hh) /\ AllDigits(mm) /\ AllDigits(ss)
            /\ Val(hh) = fmtIn \div 3600
            /\ Val(mm) = (fmtIn % 3600) \div 60
            /\ Val(ss) = fmtIn % 60
            /\ (fmtIn \div 3600 < 100 => n = 8)
            /\ (fmtIn = 0 => fmtOut = <<"0", "0", ":", "0", "0", ":", "0", "0">>)
            /\ (fmtIn = 3661 => fmtOut = <<"0", "1", ":", "0", "1", ":", "0", "1">>)
            /\ (fmtIn = 86399 => fmtOut = <<"2", "3", ":", "5", "9", ":", "5", "9">>)
            /\ (fmtIn = 90000 => fmtOut = <<"2", "5", ":", "0", "0", ":", "0", "0">>)

\* a formatted timestamp of more than a day, by the multi.py copy
C1_Witness ==
    /\ fmtDone /\ fmtCopy = "multi" /\ fmtIn = 90000
    /\ fmtOut = <<"2", "5", ":", "0", "0", ":", "0", "0">>

(***************************************************************************)
(* Helpers shared by the scripts.                                          *)
(***************************************************************************)
SeqsUpTo(S, n) == UNION {[1 .. k -> S] : k \in 0 .. n}

\* a for loop over eps taking its elements last to first
NextEpisodeReversed(eps, done) == eps[Len(eps) - done]

\* for episode in new_episodes (action.py line 300), for idx, episode in
\* enumerate(...) (multi.py line 107): the element taken after done passes
NextEpisode(eps, done) == eps[done + 1]

\* the per-episode locals, as they are before an episode is looked at
EpisodeReset ==
    /\ response' = None /\ newsletter_data' = None /\ output' = None
    /\ send_calls' = 0 /\ send_ok' = FALSE /\ reported' = FALSE
    /\ trail' = <<>>

\* the template with the display string as the link fragment
markdown_template_display(data) ==
    [title   |-> data.title,
     summary |-> data.summary,
     blocks  |-> [i \in 1 .. Len(data.sections) |->
                    [header   |-> data.sections[i].header,
                     content  |-> data.sections[i].content,
                     text     |-> <<"Listen at ">> \o data.sections[i].formatted_timestamp,
                     base_url |-> data.base_url,
                     fragment |-> data.sections[i].formatted_timestamp]]]

\* the Handlebars template of action.py and multi.py applied to the data:
\* title, summary and one block per element of sections, in order; the link
\* text is "Listen at {{formatted_timestamp}}", its target
\* {{../base_url}}#t={{timestamp}}
markdown_template(data) ==
    [title   |-> data.title,
     summary |-> data.summary,
     blocks  |-> [i \in 1 .. Len(data.sections) |->
                    [header   |-> data.sections[i].header,
                     content  |-> data.sections[i].content,
                     text     |-> <<"Listen at ">> \o data.sections[i].formatted_timestamp,
                     base_url |-> data.base_url,
                     fragment |-> Str(data.sections[i].timestamp)]]]

(***************************************************************************)
(* action.py: feeds.json, Gmail, the last 24 hours of every feed.          *)
(***************************************************************************)
\* lines 81-97: the credentials loaded from token.pickle or GMAIL_TOKEN
LoadCreds(e, tp) ==
    IF tp # "absent" THEN [raised |-> FALSE, creds |-> tp, file |-> tp]
    ELSE IF e.gmail_token = "absent"
         THEN [raised |-> FALSE, creds |-> "absent", file |-> "absent"]
    ELSE IF e.gmail_token = "undecodable"
         THEN [raised |-> TRUE, creds |-> "absent", file |-> "absent"]
    ELSE [raised |-> FALSE, creds |-> e.gmail_token, file |-> e.gmail_token]

\* get_gmail_service returning no service instead of raising
get_gmail_service_silent(e, tp, ext_ok) ==
    [raised |-> FALSE, file |-> LoadCreds(e, tp).file]

\* get_gmail_service: raises, or returns a service and leaves token.pickle;
\* ext_ok is whether the refresh / the local server flow succeeds
get_gmail_service(e, tp, ext_ok) ==
    LET l == LoadCreds(e, tp) IN
    IF l.raised THEN [raised |-> TRUE, file |-> l.file]
    ELSE IF l.creds = "valid" THEN [raised |-> FALSE, file |-> l.file]
    ELSE IF e.ci THEN [raised |-> TRUE, file |-> l.file]
    ELSE IF l.creds = "expired"
         THEN IF ext_ok THEN [raised |-> FALSE, file |-> "valid"]
              ELSE [raised |-> TRUE, file |-> l.file]
    ELSE IF ~e.credentials THEN [raised |-> TRUE, file |-> l.file]
    ELSE IF ext_ok THEN [raised |-> FALSE, file |-> "valid"]
    ELSE [raised |-> TRUE, file |-> l.file]

\* the recency test with the boundary excluded
KeptStrict(entry, n) ==
    /\ entry.published # NoPub
    /\ (n - entry.published) < Day

\* process_feed lines 290-292: the test an entry passes to be kept
Kept(entry, n) ==
    /\ entry.published # NoPub
    /\ (n - entry.published) <= Day

\* the loop of line 300 taking every entry of the feed
RecencyFilterAll(es, n) == [i \in 1 .. Len(es) |-> i]

\* process_feed lines 288-293: the kept entries, by position in feed.entries
RecencyFilter(es, n) ==
    SelectSeq([i \in 1 .. Len(es) |-> i], LAMBDA i : Kept(es[i], n))

\* the formatting loop of lines 232-233
action_format_sections(ss) ==
    [i \in 1 .. Len(ss) |->
        [timestamp |-> ss[i].timestamp, header |-> ss[i].header,
         content |-> ss[i].content,
         formatted_timestamp |-> format_timestamp(ss[i].timestamp)]]

MailEnvs == {[GoodEnv EXCEPT !.gmail_token = g, !.ci = c, !.credentials = k] :
                g \in {"absent", "valid", "expired", "invalid", "undecodable"},
                c \in BOOLEAN, k \in BOOLEAN}
ActionEnvs == MailEnvs \cup {[GoodEnv EXCEPT !.gemini_key = FALSE],
                             [GoodEnv EXCEPT !.deepgram_key = FALSE],
                             [GoodEnv EXCEPT !.feeds_json = FALSE],
                             [GoodEnv EXCEPT !.feeds_json = FALSE, !.gmail_token = "absent"],
                             [GoodEnv EXCEPT !.deepgram_key = FALSE, !.ci = FALSE,
                                             !.gmail_token = "absent"]}
FeedItems == {[url |-> TRUE, email |-> TRUE], [url |-> TRUE, email |-> FALSE]}
ActionEntries == {Entry(<<"A">>, Now0, TRUE), Entry(<<"A">>, Now0, FALSE),
                  Entry(<<"A">>, Now0 - Day, TRUE), Entry(<<"A">>, NoPub, TRUE)}

InitAction ==
    /\ FmtIdle
    /\ variant = "action" /\ pc = "start"
    /\ env \in ActionEnvs
    /\ token_pickle \in {"absent", "valid", "invalid"}
    /\ feeds_data \in SeqsUpTo(FeedItems, MaxFeeds)
    /\ (env = GoodEnv /\ token_pickle = "absent") \/ Len(feeds_data) <= 1
    /\ fi = 0 /\ now = 0 /\ entries = <<>> /\ new_episodes = <<>> /\ ei = 0
    /\ response = None /\ newsletter_data = None /\ output = None
    /\ send_calls = 0 /\ send_ok = FALSE /\ reported = FALSE
    /\ files = <<>>
    /\ chunks = <<>> /\ chunk_index = 0 /\ total_duration = 0 /\ vtt_files = <<>>
    /\ started = <<>> /\ inProgress = {} /\ feedsDone = <<>>
    /\ trail = <<>> /\ runStages = {} /\ outcomes = <<>>

\* lines 28-69: load_dotenv, genai.configure(api_key=os.environ[...])
action_import ==
    /\ variant = "action" /\ pc = "start"
    /\ pc' = IF env.gemini_key THEN "main" ELSE "crashed"
    /\ UNCHANGED <<fmtVars, fsVars, chunkVars, cfgVars, token_pickle, feedVars, epVars, mailVars, histVars>>

\* main lines 304-313: feeds.json, then the Gmail service
action_main ==
    /\ variant = "action" /\ pc = "main"
    /\ IF ~env.feeds_json
       THEN pc' = "done" /\ UNCHANGED token_pickle
       ELSE \E ext_ok \in BOOLEAN :
              LET g == get_gmail_service(env, token_pickle, ext_ok) IN
              /\ token_pickle' = g.file
              /\ pc' = IF g.raised THEN "crashed" ELSE "feeds"
    /\ UNCHANGED <<fmtVars, fsVars, chunkVars, cfgVars, feedVars, epVars, mailVars, histVars>>

\* main lines 316-317 calling process_feed lines 277-297
action_process_feed ==
    /\ variant = "action" /\ pc = "feeds" /\ fi < Len(feeds_data)
    /\ fi' = fi + 1
    /\ started' = <<>>
    /\ IF ~feeds_data[fi + 1].url \/ ~feeds_data[fi + 1].email
       THEN /\ pc' = "feeds"
            /\ feedsDone' = Append(feedsDone, fi + 1)
            /\ entries' = <<>> /\ new_episodes' = <<>> /\ ei' = 0
            /\ UNCHANGED now
       ELSE \E es \in SeqsUpTo(ActionEntries, MaxEntries), n \in Nows :
            /\ n >= now
            /\ entries' = es /\ now' = n /\ ei' = 0
            /\ new_episodes' = RecencyFilter(es, n)
            /\ IF RecencyFilter(es, n) = <<>>
               THEN pc' = "feeds" /\ feedsDone' = Append(feedsDone, fi + 1)
               ELSE pc' = "loop" /\ UNCHANGED feedsDone
    /\ UNCHANGED <<fmtVars, fsVars, chunkVars, cfgVars, token_pickle, epVars, mailVars,
                   inProgress, trail, runStages, outcomes>>

\* process_feed line 300 exhausted: back in main's loop
action_process_feed_return ==
    /\ variant = "action" /\ pc = "loop" /\ ei = Len(new_episodes)
    /\ pc' = "feeds"
    /\ feedsDone' = Append(feedsDone, fi)
    /\ UNCHANGED <<fmtVars, fsVars, chunkVars, cfgVars, token_pickle, feedVars, epVars, mailVars,
                   started, inProgress, trail, runStages, outcomes>>

\* main line 316 exhausted
action_main_return ==
    /\ variant = "action" /\ pc = "feeds" /\ fi = Len(feeds_data)
    /\ pc' = "done"
    /\ UNCHANGED <<fmtVars, fsVars, chunkVars, cfgVars, token_pickle, feedVars, epVars, mailVars, histVars>>

\* process_feed lines 300-301 and process_episode lines 168-181: the next
\* kept entry; no enclosure: skipped; else the Deepgram client is built
action_start_episode ==
    /\ variant = "action" /\ pc = "loop" /\ ei < Len(new_episodes)
    /\ ei' = ei + 1
    /\ started' = Append(started, NextEpisode(new_episodes, ei))
    /\ EpisodeReset
    /\ IF ~entries[NextEpisode(new_episodes, ei)].enclosures
       THEN pc' = "loop" /\ UNCHANGED inProgress
       ELSE /\ inProgress' = inProgress \cup {<<fi, NextEpisode(new_episodes, ei)>>}
            /\ pc' = IF env.deepgram_key THEN "transcribe" ELSE "crashed"
    /\ UNCHANGED <<fmtVars, fsVars, chunkVars, cfgVars, token_pickle, fi, now, entries, new_episodes,
                   feedsDone, runStages, outcomes>>

\* process_episode lines 182-216: the transcription call and its result; an
\* exception of the call or a KeyError of the extraction ends the episode
action_transcribe ==
    /\ variant = "action" /\ pc = "transcribe"
    /\ runStages' = runStages \cup {"transcribe"}
    /\ \E r \in {"ok", "raise", "KeyError"} :
         IF r = "ok"
         THEN pc' = "generate" /\ trail' = Append(trail, "transcribe")
              /\ UNCHANGED inProgress
         ELSE pc' = "loop" /\ inProgress' = {} /\ UNCHANGED trail
    /\ UNCHANGED <<fmtVars, fsVars, chunkVars, cfgVars, token_pickle, feedVars, epVars, mailVars,
                   started, feedsDone, outcomes>>

\* process_episode lines 218-222: chat_session.send_message
action_generate ==
    /\ variant = "action" /\ pc = "generate"
    /\ runStages' = runStages \cup {"generate"}
    /\ \/ /\ pc' = "crashed"
          /\ UNCHANGED <<response, trail>>
       \/ \E r \in Responses :
          /\ response' = Some(r)
          /\ pc' = "parse"
          /\ trail' = Append(trail, "generate")
    /\ UNCHANGED <<fmtVars, fsVars, chunkVars, cfgVars, token_pickle, feedVars, newsletter_data, output,
                   mailVars, started, inProgress, feedsDone, outcomes>>

\* the sections check without its else branch: a response that is JSON goes
\* on to the template whether or not it has sections
action_parse_unchecked ==
    /\ variant = "action" /\ pc = "parse"
    /\ IF response[1].json
       THEN /\ newsletter_data' = Some(
                 [title |-> response[1].title, summary |-> response[1].summary,
                  sections |-> action_format_sections(response[1].sections)])
            /\ pc' = "render"
            /\ trail' = trail \o <<"parse", "format">>
            /\ UNCHANGED inProgress
       ELSE /\ pc' = "loop" /\ inProgress' = {}
            /\ UNCHANGED <<newsletter_data, trail>>
    /\ UNCHANGED <<fmtVars, fsVars, chunkVars, cfgVars, token_pickle, feedVars, response, output,
                   mailVars, started, feedsDone, runStages, outcomes>>

\* the sections check by truth value (if newsletter_data.get("sections")):
\* an empty array is rejected like a missing one
action_parse_truthy ==
    /\ variant = "action" /\ pc = "parse"
    /\ IF response[1].json /\ response[1].has_sections /\ response[1].sections # <<>>
       THEN /\ newsletter_data' = Some(
                 [title |-> response[1].title, summary |-> response[1].summary,
                  sections |-> action_format_sections(response[1].sections)])
            /\ pc' = "render"
            /\ trail' = trail \o <<"parse", "format">>
            /\ UNCHANGED inProgress
       ELSE /\ pc' = "loop" /\ inProgress' = {}
            /\ UNCHANGED <<newsletter_data, trail>>
    /\ UNCHANGED <<fmtVars, fsVars, chunkVars, cfgVars, token_pickle, feedVars, response, output,
                   mailVars, started, feedsDone, runStages, outcomes>>

\* process_episode lines 224-236: json.loads, the sections check, the
\* formatted timestamps
action_parse ==
    /\ variant = "action" /\ pc = "parse"
    /\ IF response[1].json /\ response[1].has_sections
       THEN /\ newsletter_data' = Some(
                 [title |-> response[1].title, summary |-> response[1].summary,
                  sections |-> action_format_sections(response[1].sections)])
            /\ pc' = "render"
            /\ trail' = trail \o <<"parse", "format">>
            /\ UNCHANGED inProgress
       ELSE /\ pc' = "loop" /\ inProgress' = {}
            /\ UNCHANGED <<newsletter_data, trail>>
    /\ UNCHANGED <<fmtVars, fsVars, chunkVars, cfgVars, token_pickle, feedVars, response, output,
                   mailVars, started, feedsDone, runStages, outcomes>>

\* process_episode lines 238-262: the template applied to the data
action_render ==
    /\ variant = "action" /\ pc = "render"
    /\ runStages' = runStages \cup {"render"}
    /\ \/ /\ output' = Some(markdown_template(
                          [title |-> newsletter_data[1].title,
                           summary |-> newsletter_data[1].summary,
                           sections |-> newsletter_data[1].sections,
                           base_url |-> "audio_url"]))
          /\ pc' = "send"
          /\ trail' = Append(trail, "render")
          /\ UNCHANGED inProgress
       \/ /\ pc' = "loop" /\ inProgress' = {}
          /\ UNCHANGED <<output, trail>>
    /\ UNCHANGED <<fmtVars, fsVars, chunkVars, cfgVars, token_pickle, feedVars, response, newsletter_data,
                   mailVars, started, feedsDone, outcomes>>

\* process_episode lines 264-270 and send_email lines 120-150
action_send ==
    /\ variant = "action" /\ pc = "send"
    /\ runStages' = runStages \cup {"send"}
    /\ send_calls' = send_calls + 1
    /\ \E ok \in BOOLEAN :
         /\ send_ok' = ok
         /\ trail' = IF ok THEN Append(trail, "send") ELSE trail
    /\ reported' = TRUE
    /\ pc' = "loop" /\ inProgress' = {}
    /\ UNCHANGED <<fmtVars, fsVars, chunkVars, cfgVars, token_pickle, feedVars, epVars, started,
                   feedsDone, outcomes>>

NextAction ==
    \/ action_import \/ action_main \/ action_process_feed
    \/ action_process_feed_return \/ action_main_return
    \/ action_start_episode \/ action_transcribe \/ action_generate
    \/ action_parse \/ action_render \/ action_send

(***************************************************************************)
(* multi.py: the latest episodes of one feed, one file per episode, then   *)
(* merge_newsletter_files.                                                 *)
(***************************************************************************)
BatchLimit == 10

\* str.isalnum() on the characters the titles of the model use
IsAlnum(c) == c \in {"A", "B"}

RECURSIVE rstrip(_)
rstrip(s) == IF Len(s) > 0 /\ s[Len(s)] = " " THEN rstrip(SubSeq(s, 1, Len(s) - 1))
             ELSE s

\* safe_filename, line 91
safe_filename(title) ==
    rstrip(SelectSeq(title, LAMBDA c : IsAlnum(c) \/ c \in {" ", "-", "_"}))

\* line 179: f"newsletter_{safe_name}.md"
newsletter_file(safe_name) == <<"newsletter_">> \o safe_name \o <<".", "m", "d">>
merged_file == <<"merged_newsletter.md">>

\* glob.glob('newsletter_*'), line 189
Glob(fs) == {n \in DOMAIN fs : n[1] = "newsletter_"}

\* the code point of a character of a file name
Ord(c) == CASE c = " " -> 32 [] c = "-" -> 45 [] c = "." -> 46
            [] c = "A" -> 65 [] c = "B" -> 66 [] c = "_" -> 95
            [] c = "d" -> 100 [] c = "m" -> 109 [] c = "n" -> 110
            [] c = "o" -> 111 [] c = "t" -> 116 [] c = "x" -> 120
            [] OTHER -> 0

RECURSIVE StrLess(_, _)
\* a < b for two strings
StrLess(a, b) ==
    IF Len(b) = 0 THEN FALSE
    ELSE IF Len(a) = 0 THEN TRUE
    ELSE IF Ord(a[1]) # Ord(b[1]) THEN Ord(a[1]) < Ord(b[1])
    ELSE StrLess(Tail(a), Tail(b))

RECURSIVE Sorted(_)
\* sorted(names), line 195
Sorted(names) ==
    IF names = {} THEN <<>>
    ELSE LET first == CHOOSE n \in names : \A m \in names \ {n} : StrLess(n, m)
         IN  <<first>> \o Sorted(names \ {first})

\* lines 192-206: the contents of the globbed files in sorted order, each
\* followed by a blank line; strip() removes the last one
MergedContent(fs) ==
    LET names == Sorted(Glob(fs)) IN [i \in 1 .. Len(names) |-> fs[names[i]]]

\* the formatting loop of lines 169-170
multi_format_sections(ss) ==
    [i \in 1 .. Len(ss) |->
        [timestamp |-> ss[i].timestamp, header |-> ss[i].header,
         content |-> ss[i].content,
         formatted_timestamp |-> format_timestamp_multi(ss[i].timestamp)]]

\* a file an earlier run left for an episode titled t
StaleContent(t) == [run |-> "earlier", idx |-> 0, title |-> t, text |-> None]
MultiTitles == {<<"A">>, <<"A", "!">>, <<"B">>}
StaleDirs ==
    {<<>>} \cup
    {[n \in {newsletter_file(safe_filename(t))} |-> StaleContent(t)] : t \in MultiTitles}
MultiEnvs == {GoodEnv, [GoodEnv EXCEPT !.gemini_key = FALSE],
              [GoodEnv EXCEPT !.deepgram_key = FALSE]}
MultiEntries == {Entry(t, NoPub, TRUE) : t \in MultiTitles}
                   \cup {Entry(<<"A">>, NoPub, FALSE)}

InitMulti ==
    /\ FmtIdle
    /\ variant = "multi" /\ pc = "start"
    /\ env \in MultiEnvs
    /\ token_pickle = "absent"
    /\ feeds_data = <<>>
    /\ fi = 0 /\ now = 0 /\ entries = <<>> /\ new_episodes = <<>> /\ ei = 0
    /\ response = None /\ newsletter_data = None /\ output = None
    /\ send_calls = 0 /\ send_ok = FALSE /\ reported = FALSE
    /\ files \in StaleDirs
    /\ chunks = <<>> /\ chunk_index = 0 /\ total_duration = 0 /\ vtt_files = <<>>
    /\ started = <<>> /\ inProgress = {} /\ feedsDone = <<>>
    /\ trail = <<>> /\ runStages = {} /\ outcomes = <<>>

\* lines 14-80: load_dotenv, genai.configure(api_key=os.environ[...])
multi_import ==
    /\ variant = "multi" /\ pc = "start"
    /\ pc' = IF env.gemini_key THEN "main" ELSE "crashed"
    /\ UNCHANGED <<fmtVars, fsVars, chunkVars, cfgVars, token_pickle, feedVars, epVars,
                   mailVars, histVars>>

\* main lines 95-107: the feed, the Deepgram key, rss.entries[:10]
multi_main ==
    /\ variant = "multi" /\ pc = "main"
    /\ \E es \in SeqsUpTo(MultiEntries, MaxBatch) :
         /\ entries' = es
         /\ IF es = <<>>
            THEN pc' = "merge" /\ new_episodes' = <<>>
            ELSE IF ~env.deepgram_key
            THEN pc' = "crashed" /\ new_episodes' = <<>>
            ELSE /\ pc' = "loop"
                 /\ new_episodes' =
                      [i \in 1 .. (IF Len(es) < BatchLimit THEN Len(es) ELSE BatchLimit) |-> i]
    /\ UNCHANGED <<fmtVars, fsVars, chunkVars, cfgVars, token_pickle, fi, now, ei, epVars,
                   mailVars, histVars>>

\* lines 107-122: the next episode; no enclosure: skipped
multi_start_episode ==
    /\ variant = "multi" /\ pc = "loop" /\ ei < Len(new_episodes)
    /\ ei' = ei + 1
    /\ started' = Append(started, NextEpisode(new_episodes, ei))
    /\ EpisodeReset
    /\ IF ~entries[NextEpisode(new_episodes, ei)].enclosures
       THEN pc' = "loop" /\ outcomes' = Append(outcomes, "no_audio")
            /\ UNCHANGED inProgress
       ELSE /\ inProgress' = inProgress \cup {<<fi, NextEpisode(new_episodes, ei)>>}
            /\ pc' = "transcribe"
            /\ UNCHANGED outcomes
    /\ UNCHANGED <<fmtVars, fsVars, chunkVars, cfgVars, token_pickle, fi, now, entries,
                   new_episodes, feedsDone, runStages>>

\* lines 124-141: the transcription call and its result; every failure ends
\* the episode (continue, or the except of line 184)
multi_transcribe ==
    /\ variant = "multi" /\ pc = "transcribe"
    /\ runStages' = runStages \cup {"transcribe"}
    /\ \E r \in {"ok", "raise", "KeyError"} :
         IF r = "ok"
         THEN pc' = "generate" /\ trail' = Append(trail, "transcribe")
              /\ UNCHANGED <<inProgress, outcomes>>
         ELSE pc' = "loop" /\ inProgress' = {} /\ UNCHANGED trail
              /\ outcomes' = Append(outcomes, "transcription")
    /\ UNCHANGED <<fmtVars, fsVars, chunkVars, cfgVars, token_pickle, feedVars, epVars,
                   mailVars, started, feedsDone>>

\* lines 156-160: chat_session.send_message; an exception reaches line 184
multi_generate ==
    /\ variant = "multi" /\ pc = "generate"
    /\ runStages' = runStages \cup {"generate"}
    /\ \/ /\ pc' = "loop" /\ inProgress' = {}
          /\ outcomes' = Append(outcomes, "generation")
          /\ UNCHANGED <<response, trail>>
       \/ \E r \in Responses :
          /\ response' = Some(r)
          /\ pc' = "parse"
          /\ trail' = Append(trail, "generate")
          /\ UNCHANGED <<inProgress, outcomes>>
    /\ UNCHANGED <<fmtVars, fsVars, chunkVars, cfgVars, token_pickle, feedVars,
                   newsletter_data, output, mailVars, started, feedsDone>>

\* lines 162-173: json.loads (continue on JSONDecodeError), then
\* newsletter_data["sections"] (KeyError reaches line 184), the formatted
\* timestamps
multi_parse ==
    /\ variant = "multi" /\ pc = "parse"
    /\ IF response[1].json /\ response[1].has_sections
       THEN /\ newsletter_data' = Some(
                 [title |-> response[1].title, summary |-> response[1].summary,
                  sections |-> multi_format_sections(response[1].sections)])
            /\ pc' = "render"
            /\ trail' = trail \o <<"parse", "format">>
            /\ UNCHANGED <<inProgress, outcomes>>
       ELSE /\ pc' = "loop" /\ inProgress' = {}
            /\ outcomes' = Append(outcomes, "generation")
            /\ UNCHANGED <<newsletter_data, trail>>
    /\ UNCHANGED <<fmtVars, fsVars, chunkVars, cfgVars, token_pickle, feedVars, response,
                   output, mailVars, started, feedsDone, runStages>>

\* lines 175-176: the template applied to the data
multi_render ==
    /\ variant = "multi" /\ pc = "render"
    /\ runStages' = runStages \cup {"render"}
    /\ \/ /\ output' = Some(markdown_template(
                          [title |-> newsletter_data[1].title,
                           summary |-> newsletter_data[1].summary,
                           sections |-> newsletter_data[1].sections,
                           base_url |-> "audio_url"]))
          /\ pc' = "write"
          /\ trail' = Append(trail, "render")
          /\ UNCHANGED <<inProgress, outcomes>>
       \/ /\ pc' = "loop" /\ inProgress' = {}
          /\ outcomes' = Append(outcomes, "render")
          /\ UNCHANGED <<output, trail>>
    /\ UNCHANGED <<fmtVars, fsVars, chunkVars, cfgVars, token_pickle, feedVars, response,
                   newsletter_data, mailVars, started, feedsDone>>

\* lines 178-183: the episode's file is written
multi_write ==
    /\ variant = "multi" /\ pc = "write"
    /\ runStages' = runStages \cup {"write"}
    /\ LET idx  == NextEpisode(new_episodes, ei - 1)
           name == newsletter_file(safe_filename(entries[idx].title))
       IN  files' = (name :> [run |-> "this", idx |-> idx,
                              title |-> entries[idx].title, text |-> output]) @@ files
    /\ trail' = Append(trail, "write")
    /\ outcomes' = Append(outcomes, "written")
    /\ pc' = "loop" /\ inProgress' = {}
    /\ UNCHANGED <<fmtVars, chunkVars, cfgVars, token_pickle, feedVars, epVars, mailVars,
                   started, feedsDone>>

\* line 107 exhausted: main returns, asyncio.run returns
multi_main_return ==
    /\ variant = "multi" /\ pc = "loop" /\ ei = Len(new_episodes)
    /\ pc' = "merge"
    /\ UNCHANGED <<fmtVars, fsVars, chunkVars, cfgVars, token_pickle, feedVars, epVars,
                   mailVars, histVars>>

\* merge_newsletter_files, lines 187-209
merge_newsletter_files ==
    /\ variant = "multi" /\ pc = "merge"
    /\ files' = IF MergedContent(files) # <<>>
                THEN (merged_file :> MergedContent(files)) @@ files
                ELSE files
    /\ pc' = "done"
    /\ UNCHANGED <<fmtVars, chunkVars, cfgVars, token_pickle, feedVars, epVars, mailVars,
                   histVars>>

NextMulti ==
    \/ multi_import \/ multi_main \/ multi_start_episode \/ multi_transcribe
    \/ multi_generate \/ multi_parse \/ multi_render \/ multi_write
    \/ multi_main_return \/ merge_newsletter_files

(***************************************************************************)
(* geminifull.py: one newsletter from episode.json.                        *)
(***************************************************************************)
\* the template of geminifull.py and main.py: as markdown_template, the
\* link text being {{formatted_timestamp}} alone
markdown_template_plain(data) ==
    [title   |-> data.title,
     summary |-> data.summary,
     blocks  |-> [i \in 1 .. Len(data.sections) |->
                    [header   |-> data.sections[i].header,
                     content  |-> data.sections[i].content,
                     text     |-> data.sections[i].formatted_timestamp,
                     base_url |-> data.base_url,
                     fragment |-> Str(data.sections[i].timestamp)]]]

InitGemini ==
    /\ FmtIdle
    /\ variant = "gemini" /\ pc = "start"
    /\ env \in {GoodEnv, [GoodEnv EXCEPT !.gemini_key = FALSE]}
    /\ token_pickle = "absent"
    /\ feeds_data = <<>>
    /\ fi = 0 /\ now = 0 /\ entries = <<>> /\ new_episodes = <<>> /\ ei = 0
    /\ response = None /\ newsletter_data = None /\ output = None
    /\ send_calls = 0 /\ send_ok = FALSE /\ reported = FALSE
    /\ files = <<>>
    /\ chunks = <<>> /\ chunk_index = 0 /\ total_duration = 0 /\ vtt_files = <<>>
    /\ started = <<>> /\ inProgress = {} /\ feedsDone = <<>>
    /\ trail = <<>> /\ runStages = {} /\ outcomes = <<>>

\* line 8: genai.configure(api_key=os.environ[...])
gemini_import ==
    /\ variant = "gemini" /\ pc = "start"
    /\ pc' = IF env.gemini_key THEN "generate" ELSE "crashed"
    /\ UNCHANGED <<fmtVars, fsVars, chunkVars, cfgVars, token_pickle, feedVars, epVars,
                   mailVars, histVars>>

\* process_uploaded_file lines 69-79: episode.json, send_message; nothing
\* catches an exception
gemini_generate ==
    /\ variant = "gemini" /\ pc = "generate"
    /\ runStages' = runStages \cup {"generate"}
    /\ started' = <<1>>
    /\ inProgress' = {<<0, 1>>}
    /\ \/ /\ pc' = "crashed"
          /\ UNCHANGED <<response, trail>>
       \/ \E r \in Responses :
          /\ response' = Some(r)
          /\ pc' = "parse"
          /\ trail' = Append(trail, "generate")
    /\ UNCHANGED <<fmtVars, fsVars, chunkVars, cfgVars, token_pickle, feedVars,
                   newsletter_data, output, mailVars, feedsDone, outcomes>>

\* lines 81-94: json.loads and json_input["sections"], neither guarded
gemini_parse ==
    /\ variant = "gemini" /\ pc = "parse"
    /\ IF response[1].json /\ response[1].has_sections
       THEN /\ newsletter_data' = Some(
                 [title |-> response[1].title, summary |-> response[1].summary,
                  sections |-> multi_format_sections(response[1].sections)])
            /\ pc' = "render"
            /\ trail' = trail \o <<"parse", "format">>
       ELSE /\ pc' = "crashed"
            /\ UNCHANGED <<newsletter_data, trail>>
    /\ UNCHANGED <<fmtVars, fsVars, chunkVars, cfgVars, token_pickle, feedVars, response,
                   output, mailVars, started, inProgress, feedsDone, runStages,
                   outcomes>>

\* lines 96-120: the template applied to the data
gemini_render ==
    /\ variant = "gemini" /\ pc = "render"
    /\ runStages' = runStages \cup {"render"}
    /\ \/ /\ output' = Some(markdown_template_plain(
                          [title |-> newsletter_data[1].title,
                           summary |-> newsletter_data[1].summary,
                           sections |-> newsletter_data[1].sections,
                           base_url |-> "uploaded_audio.mp3"]))
          /\ pc' = "write"
          /\ trail' = Append(trail, "render")
       \/ /\ pc' = "crashed"
          /\ UNCHANGED <<output, trail>>
    /\ UNCHANGED <<fmtVars, fsVars, chunkVars, cfgVars, token_pickle, feedVars, response,
                   newsletter_data, mailVars, started, inProgress, feedsDone, outcomes>>

\* lines 122-127: newsletter.md is written
gemini_write ==
    /\ variant = "gemini" /\ pc = "write"
    /\ runStages' = runStages \cup {"write"}
    /\ files' = (<<"newsletter.md">> :> [run |-> "this", idx |-> 1, title |-> <<>>,
                                        text |-> output]) @@ files
    /\ trail' = Append(trail, "write")
    /\ pc' = "done" /\ inProgress' = {}
    /\ UNCHANGED <<fmtVars, chunkVars, cfgVars, token_pickle, feedVars, epVars, mailVars,
                   started, feedsDone, outcomes>>

NextGemini ==
    \/ gemini_import \/ gemini_generate \/ gemini_parse \/ gemini_render
    \/ gemini_write

(***************************************************************************)
(* main.py: the newest episode, downloaded, split into chunks, transcribed *)
(* chunk by chunk.                                                         *)
(***************************************************************************)
SegmentTime == 600

Seg(s, e) == [start |-> s, end |-> e]
\* what the speech model can return for one chunk of SegmentTime seconds:
\* its segments, with times counted from the start of the chunk
ChunkResults == {<<>>,
                 <<Seg(5, SegmentTime)>>,
                 <<Seg(5, 590)>>,
                 <<Seg(0, 300), Seg(300, 595)>>}

InitMain ==
    /\ FmtIdle
    /\ variant = "main" /\ pc = "start"
    /\ env \in {GoodEnv, [GoodEnv EXCEPT !.gemini_key = FALSE]}
    /\ token_pickle = "absent"
    /\ feeds_data = <<>>
    /\ fi = 0 /\ now = 0 /\ entries = <<>> /\ new_episodes = <<>> /\ ei = 0
    /\ response = None /\ newsletter_data = None /\ output = None
    /\ send_calls = 0 /\ send_ok = FALSE /\ reported = FALSE
    /\ files = <<>>
    /\ chunks = <<>> /\ chunk_index = 0 /\ total_duration = 0 /\ vtt_files = <<>>
    /\ started = <<>> /\ inProgress = {} /\ feedsDone = <<>>
    /\ trail = <<>> /\ runStages = {} /\ outcomes = <<>>

\* lines 16-19: genai.configure(api_key=os.environ[...])
main_import ==
    /\ variant = "main" /\ pc = "start"
    /\ pc' = IF env.gemini_key THEN "setup" ELSE "crashed"
    /\ UNCHANGED <<fmtVars, fsVars, chunkVars, cfgVars, token_pickle, feedVars, epVars,
                   mailVars, histVars>>

\* lines 30-115: ffmpeg (exit(1) when absent), the feed's first entry, its
\* audio link, the download, the split into chunk files of SegmentTime
\* seconds; each chunk is given by what the speech model returns for it
main_setup ==
    /\ variant = "main" /\ pc = "setup"
    /\ \/ pc' = "exited" /\ UNCHANGED <<chunks, started, inProgress>>
       \/ pc' = "crashed" /\ UNCHANGED <<chunks, started, inProgress>>
       \/ \E cs \in SeqsUpTo(ChunkResults, MaxChunks) :
            /\ chunks' = cs
            /\ started' = <<1>>
            /\ inProgress' = {<<0, 1>>}
            /\ pc' = "chunks"
    /\ UNCHANGED <<fmtVars, fsVars, chunk_index, total_duration, vtt_files, cfgVars,
                   token_pickle, feedVars, epVars, mailVars, feedsDone, trail, runStages,
                   outcomes>>

\* lines 141-143: the segments of a chunk, moved by the running offset
Shifted(segments, offset) ==
    [i \in 1 .. Len(segments) |->
        [start_time |-> segments[i].start + offset,
         end_time   |-> segments[i].end + offset]]

\* line 155: the running offset after a chunk with these segments
NextTotalDuration(total, segments) == total + segments[Len(segments)].end

\* lines 122-156, one pass of the loop: the chunk is transcribed, its VTT
\* file written, the offset advanced (IndexError when it has no segment)
main_transcribe_chunk ==
    /\ variant = "main" /\ pc = "chunks" /\ chunk_index < Len(chunks)
    /\ runStages' = runStages \cup {"transcribe"}
    /\ LET result == chunks[chunk_index + 1] IN
       /\ vtt_files' = Append(vtt_files, Shifted(result, total_duration))
       /\ IF result = <<>>
          THEN pc' = "crashed" /\ UNCHANGED <<total_duration, chunk_index>>
          ELSE /\ total_duration' = NextTotalDuration(total_duration, result)
               /\ chunk_index' = chunk_index + 1
               /\ pc' = "chunks"
    /\ UNCHANGED <<fmtVars, fsVars, chunks, cfgVars, token_pickle, feedVars, epVars,
                   mailVars, started, inProgress, feedsDone, trail, outcomes>>

\* lines 124-125 and 158-175: no further chunk file; the VTT files are merged
main_merge_vtt ==
    /\ variant = "main" /\ pc = "chunks" /\ chunk_index = Len(chunks)
    /\ pc' = "generate"
    /\ trail' = Append(trail, "transcribe")
    /\ UNCHANGED <<fmtVars, fsVars, chunkVars, cfgVars, token_pickle, feedVars, epVars,
                   mailVars, started, inProgress, feedsDone, runStages, outcomes>>

\* lines 177-237: the model is created, episode.json read, and the merged
\* VTT file, which starts with WEBVTT, is given to json.load: JSONDecodeError
main_generate_input ==
    /\ variant = "main" /\ pc = "generate"
    /\ pc' = "crashed"
    /\ UNCHANGED <<fmtVars, fsVars, chunkVars, cfgVars, token_pickle, feedVars, epVars,
                   mailVars, histVars>>

NextMain ==
    \/ main_import \/ main_setup \/ main_transcribe_chunk \/ main_merge_vtt
    \/ main_generate_input

(***************************************************************************)
(* One run of one of the scripts.                                          *)
(***************************************************************************)
Init == InitAction \/ InitMulti \/ InitGemini \/ InitMain
Next == NextAction \/ NextMulti \/ NextGemini \/ NextMain
Spec == Init /\ [][Next]_vars

(***************************************************************************)
(* The formatting and rendering steps of action.py and multi.py applied to *)
(* a generation response with up to MaxSections sections.                  *)
(***************************************************************************)
SectionC == [timestamp |-> 3661, header |-> "C", content |-> "c-body"]
SectionD == [timestamp |-> 0, header |-> "D", content |-> "d-body"]
SectionPool == {SectionA, SectionB, SectionC, SectionD}

InitRender ==
    /\ FmtIdle
    /\ variant \in {"action", "multi"} /\ pc = "parse"
    /\ env = GoodEnv /\ token_pickle = "valid"
    /\ feeds_data = IF variant = "action" THEN <<[url |-> TRUE, email |-> TRUE]>> ELSE <<>>
    /\ fi = (IF variant = "action" THEN 1 ELSE 0)
    /\ now = (IF variant = "action" THEN Now0 ELSE 0)
    /\ entries = <<Entry(<<"A">>, IF variant = "action" THEN Now0 ELSE NoPub, TRUE)>>
    /\ new_episodes = <<1>> /\ ei = 1
    /\ response \in {Some(WithSections(ss)) : ss \in SeqsUpTo(SectionPool, MaxSections)}
    /\ newsletter_data = None /\ output = None
    /\ send_calls = 0 /\ send_ok = FALSE /\ reported = FALSE
    /\ files = <<>>
    /\ chunks = <<>> /\ chunk_index = 0 /\ total_duration = 0 /\ vtt_files = <<>>
    /\ started = <<1>> /\ inProgress = {<<fi, 1>>} /\ feedsDone = <<>>
    /\ trail = <<"transcribe", "generate">>
    /\ runStages = {"transcribe", "generate"} /\ outcomes = <<>>

NextRender == action_parse \/ action_render \/ multi_parse \/ multi_render
SpecRender == InitRender /\ [][NextRender]_vars

(***************************************************************************)
(* Properties.                                                             *)
(***************************************************************************)
Range(s) == {s[i] : i \in 1 .. Len(s)}

\* whether an item of the merged document belongs to episode k of the feed:
\* written for it by this run, or left for an episode of its title by an
\* earlier run
IsForEpisode(c, k) ==
    \/ c.run = "this" /\ c.idx = k
    \/ c.run = "earlier" /\ c.title = entries[k].title

\* C2: multi.py, three episodes, generation fails for the second and the
\* other two succeed: the files of episodes 1 and 3 are written and the
\* merged document holds no content for episode 2.
C2_BatchIsolation ==
    (/\ variant = "multi" /\ pc = "done"
     /\ outcomes = <<"written", "generation", "written">>)
    => /\ newsletter_file(safe_filename(entries[1].title)) \in DOMAIN files
       /\ newsletter_file(safe_filename(entries[3].title)) \in DOMAIN files
       /\ merged_file \in DOMAIN files
       /\ \A i \in 1 .. Len(files[merged_file]) :
            ~IsForEpisode(files[merged_file][i], 2)

\* a configuration value is missing: the generation key, the transcription
\* key, or (action.py) every mail credential
ConfigMissing ==
    \/ ~env.gemini_key
    \/ ~env.deepgram_key
    \/ /\ variant = "action"
       /\ token_pickle = "absent" /\ env.gmail_token = "absent" /\ ~env.credentials

\* C3: action.py, nothing missing from the configuration: a failure at a
\* stage of one episode never aborts the run, the later episodes and feeds
\* are still processed.
C3_EpisodeFailureNeverAborts ==
    (variant = "action" /\ ~ConfigMissing /\ inProgress # {}) => pc # "crashed"

\* C4: in every variant a response that is JSON without sections is
\* rejected: nothing is rendered or delivered for the episode and the
\* program does not crash.
C4_MissingSectionsRejected ==
    (response = Some(NoSections) /\ pc # "parse")
    => /\ pc # "crashed"
       /\ output = None
       /\ "send" \notin Range(trail) /\ "write" \notin Range(trail)

\* C5: process_feed keeps exactly the entries that have a published time
\* with now - published <= 24 h: an entry exactly 24 h old is kept, one of
\* 24 h + 1 s is not.
C5_RecencyFilter ==
    (variant = "action" /\ pc \in {"loop", "transcribe", "generate", "parse", "render", "send"})
    => /\ \A i \in 1 .. Len(entries) :
            (i \in Range(new_episodes))
              <=> (entries[i].published # NoPub /\ entries[i].published >= now - 24 * 3600)
       /\ \A i \in 1 .. Len(entries) :
            /\ (entries[i].published = now - 24 * 3600 => i \in Range(new_episodes))
            /\ (entries[i].published = now - 24 * 3600 - 1 => i \notin Range(new_episodes))
       /\ \A j \in 1 .. Len(new_episodes) - 1 : new_episodes[j] < new_episodes[j + 1]

\* a feed with an entry exactly 24 h old, kept, next to an entry without a
\* published time, dropped
C5_Witness ==
    /\ variant = "action" /\ pc = "loop" /\ Len(entries) = 2
    /\ entries[1].published = NoPub
    /\ entries[2].published = now - Day
    /\ new_episodes = <<2>>

\* C6: main.py: every segment of chunk k is emitted with its chunk-local
\* start and end plus the durations of the chunks before k.
C6_GlobalOffsets ==
    variant = "main" =>
        \A k \in 1 .. Len(vtt_files) : \A i \in 1 .. Len(vtt_files[k]) :
            /\ vtt_files[k][i].start_time = chunks[k][i].start + (k - 1) * SegmentTime
            /\ vtt_files[k][i].end_time = chunks[k][i].end + (k - 1) * SegmentTime

\* C7: rendering n sections gives n blocks in the order of the sections,
\* the link fragment of each being the section's raw numeric timestamp.
C7_RenderSections ==
    (output # None /\ response # None) =>
        /\ Len(output[1].blocks) = Len(response[1].sections)
        /\ \A i \in 1 .. Len(output[1].blocks) :
             /\ output[1].blocks[i].header = response[1].sections[i].header
             /\ output[1].blocks[i].content = response[1].sections[i].content
             /\ AllDigits(output[1].blocks[i].fragment)
             /\ Val(output[1].blocks[i].fragment) = response[1].sections[i].timestamp

\* two sections, B before A, rendered by multi.py: #t=130 then #t=65
C7_Witness ==
    /\ variant = "multi" /\ output # None
    /\ response = Some(WithSections(<<SectionB, SectionA>>))
    /\ output[1].blocks[1].fragment = <<"1", "3", "0">>
    /\ output[1].blocks[2].fragment = <<"6", "5">>

\* the credentials get_gmail_service loads are absent or not valid
NoValidToken ==
    (IF token_pickle # "absent" THEN token_pickle ELSE env.gmail_token) # "valid"

\* C8: action.py, no valid token and CI set: get_gmail_service raises and
\* main stops before a feed is parsed or a send attempted.
C8_NoTokenInCI ==
    (variant = "action" /\ env.ci /\ NoValidToken)
    => /\ fi = 0 /\ started = <<>> /\ runStages = {} /\ send_calls = 0
       /\ \/ pc \in {"start", "main", "crashed"}
          \/ pc = "done" /\ ~env.feeds_json

\* the run ended in get_gmail_service for want of a valid token in CI
C8_Witness ==
    /\ variant = "action" /\ env.ci /\ NoValidToken
    /\ env.gemini_key /\ env.feeds_json /\ feeds_data # <<>>
    /\ pc = "crashed"

\* C9: action.py and multi.py: with a configuration value missing the run
\* stops at startup: the processing of no episode is entered and no stage
\* of an episode occurs.
C9_MissingConfigFatalAtStartup ==
    (variant \in {"action", "multi"} /\ ConfigMissing)
    => inProgress = {} /\ runStages = {}

\* C10: episodes are processed one at a time, in the order of the feed, and
\* feeds in the order of feeds.json, each feed finished before the next.
C10_SequentialInOrder ==
    variant \in {"action", "multi"} =>
        /\ Cardinality(inProgress) <= 1
        /\ \A j \in 1 .. Len(new_episodes) - 1 : new_episodes[j] < new_episodes[j + 1]
        /\ Len(started) <= Len(new_episodes)
        /\ started = SubSeq(new_episodes, 1, Len(started))
        /\ inProgress # {} => inProgress = {<<fi, started[Len(started)]>>}
        /\ feedsDone = [j \in 1 .. Len(feedsDone) |-> j]
        /\ fi - Len(feedsDone) \in {0, 1}
        /\ (fi > 0 /\ fi = Len(feedsDone))
              => (Len(started) = Len(new_episodes) /\ inProgress = {})

\* the second kept episode of the second feed is in progress, everything
\* before it finished
C10_Witness ==
    /\ variant = "action" /\ fi = 2 /\ feedsDone = <<1>>
    /\ started = <<1, 2>> /\ inProgress = {<<2, 2>>}
    /\ pc = "generate"

\* no entry of the feed read last passes the recency test of process_feed
NoneQualifies ==
    \A i \in 1 .. Len(entries) :
        ~(entries[i].published # NoPub /\ now - entries[i].published <= Day)

Written == {k \in 1 .. Len(outcomes) : outcomes[k] = "written"}

\* C12: multi.py: two distinct episodes of one run that both reach the file
\* write are written to different files, and the content written for each
\* of them is still on disk afterwards.
C12_OwnOutputFile ==
    variant = "multi" =>
        /\ \A i, j \in Written :
             i # j => newsletter_file(safe_filename(entries[i].title))
                        # newsletter_file(safe_filename(entries[j].title))
        /\ \A k \in Written :
             \E n \in Glob(files) : files[n].run = "this" /\ files[n].idx = k

\* C13: after merge_newsletter_files, whatever the directory held before the
\* run, merged_newsletter.md is the contents of the newsletter files the
\* batch generated, in ascending order of file name, and nothing else.
C13_MergeOfGenerated ==
    (variant = "multi" /\ pc = "done" /\ env.gemini_key /\ env.deepgram_key)
    => LET generated == {n \in Glob(files) : files[n].run = "this"}
           names     == Sorted(generated)
       IN  /\ merged_file \notin Glob(files)
           /\ IF generated = {} THEN merged_file \notin DOMAIN files
              ELSE /\ merged_file \in DOMAIN files
                   /\ files[merged_file] = [i \in 1 .. Len(names) |-> files[names[i]]]

\* the template is about to be applied, or has been applied, to the data of
\* the episode at hand
RenderAttempted ==
    /\ variant \in {"action", "multi"}
    /\ pc = "render" \/ "render" \in Range(trail)

\* C14: action.py and multi.py: whenever the template is applied to a
\* newsletter, its sections sequence is non-empty.
C14_SectionsNonEmpty ==
    RenderAttempted => (newsletter_data # None /\ Len(newsletter_data[1].sections) > 0)

\* C14 as amended: whenever the template is applied, the response was JSON
\* with a sections field, and the data has one formatted section for each
\* of its elements; the sequence may be empty.
C14_SectionsPresent ==
    RenderAttempted =>
        /\ response # None /\ response[1].json /\ response[1].has_sections
        /\ newsletter_data # None
        /\ Len(newsletter_data[1].sections) = Len(response[1].sections)

\* action.py is about to apply the template to a newsletter with an empty
\* sections array
C14_Witness ==
    /\ variant = "action" /\ pc = "render"
    /\ response = Some(WithSections(<<>>))
    /\ newsletter_data # None /\ newsletter_data[1].sections = <<>>

\* C15: action.py and multi.py: a response whose sections array is empty is
\* accepted; the episode goes on to the template, the rendered document has
\* the title, the summary and no section block, and it is handed to the
\* delivery: one send call in action.py, the episode's file in multi.py.
C15_EmptySectionsAccepted ==
    (/\ variant \in {"action", "multi"}
     /\ response = Some(WithSections(<<>>)) /\ pc # "parse")
    => /\ "parse" \in Range(trail)
       /\ newsletter_data # None /\ newsletter_data[1].sections = <<>>
       /\ output # None =>
            /\ output[1].title = response[1].title
            /\ output[1].summary = response[1].summary
            /\ output[1].blocks = <<>>
            /\ pc \in {"send", "write"} \/ "render" \in Range(trail)
       /\ (output # None /\ pc \notin {"send", "write"}) =>
            IF variant = "action" THEN send_calls = 1
            ELSE \E n \in Glob(files) :
                    /\ files[n].run = "this" /\ files[n].idx = started[Len(started)]
                    /\ files[n].text = output

\* multi.py has written the file of an episode whose response had an empty
\* sections array: title, summary, no block
C15_Witness ==
    /\ variant = "multi" /\ response = Some(WithSections(<<>>))
    /\ output # None /\ output[1].blocks = <<>> /\ output[1].title = "T"
    /\ "write" \in Range(trail)
    /\ \E n \in Glob(files) : files[n].run = "this" /\ files[n].text = output

\* C16, for main.py: when the feed has an episode with audio, the download
\* and the split succeed and every chunk yields a segment, the run goes on
\* to generation, rendering and newsletter.md; it does not end before them.
C16_MainReachesDelivery ==
    (/\ variant = "main" /\ env.gemini_key
     /\ chunks # <<>> /\ \A k \in 1 .. Len(chunks) : chunks[k] # <<>>
     /\ chunk_index = Len(chunks))
    => pc \notin {"crashed", "exited"}

\* C17: action.py: an episode is reported as processed and emailed only if
\* its send call succeeded; send_email is called at most once per episode,
\* and only after transcription, parsing, the sections check and rendering.
C17_ReportedOnlyIfSent ==
    variant = "action" =>
        /\ reported => send_ok
        /\ send_calls <= 1
        /\ send_calls = 1 =>
             SubSeq(trail, 1, 5) = <<"transcribe", "generate", "parse", "format", "render">>

====
